---- MODULE Spec2Model ----
(***************************************************************************)
(* WeatherScraper: the data acquisition layer of the weather dashboard.    *)
(*   WeatherScraper    (weather_scraper.py)   primary/fallback selection   *)
(*   CityAutocomplete  (city_autocomplete.py) cache and rate limiter       *)
(*   DataStorage       (data_storage.py)      search and weather history   *)
(* Each component has its own specification over the shared variables; a   *)
(* component's specification leaves the other components' state alone.     *)
(***************************************************************************)
EXTENDS Integers, Sequences, FiniteSets, TLC

VARIABLES
    owm_api_key,        \* WeatherScraper.owm_api_key (os.getenv result)
    call,               \* the last WeatherScraper call: inputs, requests made, outcome
    cache,              \* CityAutocomplete.cache
    last_request_time,  \* CityAutocomplete.last_request_time
    wallClock,          \* time.time(), in ticks
    sent,               \* history variable: send times of the last two geocoding requests
    lookup,             \* the last search_cities call (inputs, outcome) and the one before
    searchFile,         \* content of data/search_history.json
    historyFile,        \* content of data/weather_history.json
    now,                \* datetime.now(), in ticks since a Monday 00:00:00
    recorded,           \* history variable: the cities passed to add_search, oldest first
    storeOp,            \* the last DataStorage operation: name, inputs, outcome
    page,               \* app.main: the city of the run, its position, the sections rendered
    writers             \* processes inside add_search: position, city, the list read

vars == <<owm_api_key, call, cache, last_request_time, wallClock, sent, lookup,
          searchFile, historyFile, now, recorded, storeOp, page, writers>>

scraperVars == <<owm_api_key, call>>
resolverVars == <<cache, last_request_time, wallClock, sent, lookup>>
storeVars == <<searchFile, historyFile, now, recorded, storeOp>>
appVars == <<page, writers>>

Range(s) == {s[i] : i \in DOMAIN s}

(***************************************************************************)
(* WeatherScraper                                                          *)
(***************************************************************************)

\* os.getenv('OPENWEATHERMAP_API_KEY'): None, the empty string, or a key.
NoKey == "<None>"
KeyValues == {NoKey, "", "k-123"}

\* Python truthiness of the key, as `if self.owm_api_key:` tests it.
KeyConfigured(k) == k # NoKey /\ k # ""

\* How one HTTP exchange with a provider ends, in the order the code meets
\* the failures: requests.get raises, raise_for_status raises,
\* response.json raises, a key or index of the document is missing.
Outcomes == {"network_error", "http_error", "bad_json", "missing_keys", "ok"}

\* str(e) of the exception each failure raises.
Reason(o) ==
    CASE o = "network_error" -> "ConnectionError: connection refused"
      [] o = "http_error"    -> "503 Server Error"
      [] o = "bad_json"      -> "Expecting value: line 1 column 1 (char 0)"
      [] o = "missing_keys"  -> "'current_condition'"

\* Wind speeds are fixed-point: n stands for n / WindScale (m/s or km/h).
WindScale == 10
MaxWind == 50
WindValues == 0..MaxWind

Cities == {"paris", "Oslo"}

NoResult == [source |-> "<none>"]
NoError == <<>>

\* int(x) for a non-negative rational num/den: truncation.
IntTrunc(num, den) == num \div den

\* round(x) for a non-negative rational num/den: nearest integer, ties to even.
RoundNearest(num, den) ==
    LET q == num \div den
        r == num % den
    IN  IF 2 * r > den THEN q + 1
        ELSE IF 2 * r < den THEN q
        ELSE IF q % 2 = 0 THEN q ELSE q + 1

WindKmhRounded(speed) == ToString(RoundNearest(speed * 36, 10 * WindScale))

\* str(int(data['wind']['speed'] * 3.6))
WindKmh(speed) == ToString(IntTrunc(speed * 36, 10 * WindScale))

\* The document-to-record mapping of the primary: values pass through.
PrimaryRecord(city, kmph) ==
    [source |-> "wttr.in", city |-> city, wind_speed |-> ToString(kmph),
     uv_index |-> "1", precipitation |-> "0.0"]

\* _get_weather_from_owm on a complete document.
OwmRecord(city, speed) ==
    [source |-> "OpenWeatherMap", city |-> city, wind_speed |-> WindKmh(speed),
     uv_index |-> "0", precipitation |-> "0"]

BothFailedMessageOnlyPrimary(e, owm_error) ==
    <<"Both sources failed - ", "wttr.in", ": ", e>>

\* The messages are kept as the fragments the f-strings join.
BothFailedMessage(e, owm_error) ==
    <<"Both sources failed - ", "wttr.in", ": ", e, ", ", "OpenWeatherMap", ": ", owm_error>>

NoKeyMessage(e) ==
    <<"wttr.in failed and no ", "OpenWeatherMap", " API key configured", ": ", e>>

FallbackTriedAlways(key, primary) == primary # "ok"

\* The except branch of get_current_weather is entered on any primary
\* failure; the fallback is tried when the key is truthy.
FallbackTried(key, primary) == primary # "ok" /\ KeyConfigured(key)

\* get_current_weather(city): primary and fallback are the outcomes of the
\* two exchanges (the fallback's is read only if it is tried), wind the wind
\* speed in the document of the provider that answers (windspeedKmph of the
\* primary in km/h, wind.speed of the fallback in m/s).
get_current_weather(city, primary, fallback, wind) ==
    /\ call' =
         IF primary = "ok"
         THEN [op |-> "get_current_weather", city |-> city, primary |-> primary,
               fallback |-> "untried", speed |-> wind,
               contacted |-> <<"wttr.in">>,
               result |-> PrimaryRecord(city, wind), error |-> NoError]
         ELSE IF FallbackTried(owm_api_key, primary)
         THEN IF fallback = "ok"
              THEN [op |-> "get_current_weather", city |-> city, primary |-> primary,
                    fallback |-> fallback, speed |-> wind,
                    contacted |-> <<"wttr.in", "OpenWeatherMap">>,
                    result |-> OwmRecord(city, wind), error |-> NoError]
              ELSE [op |-> "get_current_weather", city |-> city, primary |-> primary,
                    fallback |-> fallback, speed |-> 0,
                    contacted |-> <<"wttr.in", "OpenWeatherMap">>,
                    result |-> NoResult,
                    error |-> BothFailedMessage(Reason(primary), Reason(fallback))]
         ELSE [op |-> "get_current_weather", city |-> city, primary |-> primary,
               fallback |-> "untried", speed |-> 0,
               contacted |-> <<"wttr.in">>,
               result |-> NoResult, error |-> NoKeyMessage(Reason(primary))]
    /\ UNCHANGED <<owm_api_key, resolverVars, storeVars>>

NoCall == [op |-> "none", city |-> "", primary |-> "untried", fallback |-> "untried",
           speed |-> 0, contacted |-> <<>>, result |-> NoResult, error |-> NoError]

\* The other components' state as their constructors leave it.
ResolverInit ==
    /\ cache = {}
    /\ last_request_time = 0
    /\ sent = <<>>
    /\ lookup = [op |-> "none", prior |-> [op |-> "none"]]

\* No run of the script has started and no process is inside add_search.
NoPage == [pc |-> "idle", city |-> <<>>, rendered |-> <<>>, forecast |-> "none"]
Writers == {"w1", "w2"}
NoWriter == [pc |-> "start", city |-> <<>>, searches |-> <<>>, readAt |-> 0]
AppInit ==
    /\ page = NoPage
    /\ writers = [w \in Writers |-> NoWriter]

\* JSON values: a list holds its elements in order, a dict its
\* <<key, value>> pairs in insertion order.
EmptyList == [type |-> "list", items |-> <<>>]
EmptyDict == [type |-> "dict", items |-> <<>>]

\* DataStorage.__init__ on a fresh data directory.
StoreInit ==
    /\ searchFile = EmptyList
    /\ historyFile = EmptyDict
    /\ recorded = <<>>
    /\ storeOp = [op |-> "none"]

\* WeatherScraper.__init__
Init ==
    /\ owm_api_key \in KeyValues
    /\ call = NoCall
    /\ ResolverInit
    /\ AppInit
    /\ wallClock = 0
    /\ StoreInit
    /\ now = 0

Next ==
    \E city \in Cities, primary \in Outcomes, fallback \in Outcomes,
       wind \in WindValues :
        get_current_weather(city, primary, fallback, wind) /\ UNCHANGED appVars

Spec == Init /\ [][Next]_vars

(***************************************************************************)
(* Properties of WeatherScraper                                            *)
(***************************************************************************)

PrimaryFailures == Outcomes \ {"ok"}

\* C1: whatever the outcome of the primary request, get_current_weather
\* contacts the fallback provider if and only if the primary failed and an
\* API key is configured; the result is tagged "wttr.in" exactly when the
\* primary succeeded and "OpenWeatherMap" exactly when the primary failed and
\* the fallback succeeded.
C1_FallbackSelection ==
    call.op = "get_current_weather" =>
        /\ call.primary \in Outcomes
        /\ ("OpenWeatherMap" \in Range(call.contacted))
             <=> (call.primary \in PrimaryFailures /\ KeyConfigured(owm_api_key))
        /\ (call.result.source = "wttr.in") <=> (call.primary = "ok")
        /\ (call.result.source = "OpenWeatherMap")
             <=> (call.primary \in PrimaryFailures /\ call.fallback = "ok")

C1_Witness ==
    /\ call.op = "get_current_weather"
    /\ call.primary = "http_error"
    /\ call.contacted = <<"wttr.in", "OpenWeatherMap">>
    /\ call.result.source = "OpenWeatherMap"

\* In msg, the fragment naming a source is followed by ": " and the reason.
NamesWithReason(msg, name, reason) ==
    \E i \in 1..(Len(msg) - 2) :
        msg[i] = name /\ msg[i + 1] = ": " /\ msg[i + 2] = reason

\* C2: when the primary failed and the fallback failed too or no API key is
\* configured, get_current_weather returns no result: it raises an error whose
\* message names both sources, each with its failure reason, when both were
\* tried, and says that no OpenWeatherMap API key is configured, with the
\* primary's failure reason, when the fallback was not tried.
C2_SourceUnavailable ==
    (call.op = "get_current_weather" /\ call.primary \in PrimaryFailures
        /\ call.fallback # "ok") =>
        /\ call.result = NoResult
        /\ call.error # NoError
        /\ "OpenWeatherMap" \in Range(call.contacted) =>
               /\ call.fallback \in PrimaryFailures
               /\ NamesWithReason(call.error, "wttr.in", Reason(call.primary))
               /\ NamesWithReason(call.error, "OpenWeatherMap", Reason(call.fallback))
        /\ "OpenWeatherMap" \notin Range(call.contacted) =>
               /\ ~KeyConfigured(owm_api_key)
               /\ \E i \in 1..(Len(call.error) - 2) :
                      /\ call.error[i] = "wttr.in failed and no "
                      /\ call.error[i + 1] = "OpenWeatherMap"
                      /\ call.error[i + 2] = " API key configured"
               /\ call.error[Len(call.error)] = Reason(call.primary)

C2_Witness ==
    /\ call.op = "get_current_weather"
    /\ call.primary = "bad_json"
    /\ call.fallback = "network_error"
    /\ call.error = BothFailedMessage(Reason("bad_json"), Reason("network_error"))

\* C10 as stated: on the fallback path the reported wind speed is the
\* provider's speed in m/s times 3.6, rounded to the nearest integer.
C10_Rounded ==
    (call.op = "get_current_weather" /\ call.result.source = "OpenWeatherMap") =>
        call.result.wind_speed = WindKmhRounded(call.speed)

\* C10, amended: on the fallback path the reported wind speed is the
\* provider's speed in m/s times 3.6, truncated to an integer: the integer k
\* with k <= speed * 3.6 < k + 1.
C10_Truncated ==
    (call.op = "get_current_weather" /\ call.result.source = "OpenWeatherMap") =>
        \E k \in 0..(4 * MaxWind) :
            /\ call.result.wind_speed = ToString(k)
            /\ k * 10 * WindScale <= call.speed * 36
            /\ call.speed * 36 < (k + 1) * 10 * WindScale

\* 4.9 m/s is 17.64 km/h and is reported as 17.
C10_Witness ==
    /\ call.op = "get_current_weather"
    /\ call.result.source = "OpenWeatherMap"
    /\ call.speed * 10 = 49 * WindScale
    /\ call.result.wind_speed = "17"

(***************************************************************************)
(* CityAutocomplete                                                        *)
(***************************************************************************)

\* Strings that the code takes apart (len, lower, upper) are sequences of
\* characters; strings it builds (f-strings) are sequences of fragments.
LowerChar(c) ==
    CASE c = "A" -> "a" [] c = "B" -> "b" [] c = "C" -> "c" [] c = "D" -> "d"
      [] c = "E" -> "e" [] c = "F" -> "f" [] c = "G" -> "g" [] c = "H" -> "h"
      [] c = "I" -> "i" [] c = "J" -> "j" [] c = "K" -> "k" [] c = "L" -> "l"
      [] c = "M" -> "m" [] c = "N" -> "n" [] c = "O" -> "o" [] c = "P" -> "p"
      [] c = "Q" -> "q" [] c = "R" -> "r" [] c = "S" -> "s" [] c = "T" -> "t"
      [] c = "U" -> "u" [] c = "V" -> "v" [] c = "W" -> "w" [] c = "X" -> "x"
      [] c = "Y" -> "y" [] c = "Z" -> "z"
      [] OTHER -> c

UpperChar(c) ==
    CASE c = "a" -> "A" [] c = "b" -> "B" [] c = "c" -> "C" [] c = "d" -> "D"
      [] c = "e" -> "E" [] c = "f" -> "F" [] c = "g" -> "G" [] c = "h" -> "H"
      [] c = "i" -> "I" [] c = "j" -> "J" [] c = "k" -> "K" [] c = "l" -> "L"
      [] c = "m" -> "M" [] c = "n" -> "N" [] c = "o" -> "O" [] c = "p" -> "P"
      [] c = "q" -> "Q" [] c = "r" -> "R" [] c = "s" -> "S" [] c = "t" -> "T"
      [] c = "u" -> "U" [] c = "v" -> "V" [] c = "w" -> "W" [] c = "x" -> "X"
      [] c = "y" -> "Y" [] c = "z" -> "Z"
      [] OTHER -> c

\* str.lower() and str.upper()
Lower(str) == [i \in DOMAIN str |-> LowerChar(str[i])]
Upper(str) == [i \in DOMAIN str |-> UpperChar(str[i])]

\* Time is counted in ticks.
TicksPerSecond == 2

\* self.min_request_interval = 1.0 (seconds)
min_request_interval == 1 * TicksPerSecond

\* time.time() when the resolver is built: far beyond one interval after 0.
StartClock == min_request_interval
MaxElapsed == 3
MaxClock == StartClock + MaxElapsed
MaxLatency == 1

Queries == {<<>>, <<"p">>, <<"P", "a">>, <<"p", "a">>}
Limits == {8, 10}

\* A key the address or the result does not have.
Absent == "<absent>"

\* Python truthiness of dict.get(key) for a string value.
Truthy(v) == v # Absent /\ v # ""

\* dict.get(key, default)
Get(v, default) == IF v = Absent THEN default ELSE v

Place(city, town, name, country, country_code, state) ==
    [city |-> city, town |-> town, village |-> Absent, municipality |-> Absent,
     name |-> name, country |-> country, country_code |-> country_code,
     state |-> state]

ParisFrance == Place("Paris", Absent, "Paris", "France", <<"f", "r">>, "Ile-de-France")
ParisTexas == Place(Absent, "Paris", "Paris", "United States", <<"u", "s">>, "Texas")
ParisNoCountry == Place(Absent, Absent, "Paris", Absent, Absent, Absent)
Nameless == Place(Absent, "", Absent, "France", <<"f", "r">>, Absent)

\* The result arrays a geocoding response may carry.
Responses ==
    { <<>>,
      <<ParisTexas, ParisFrance, ParisFrance>>,
      <<Nameless, ParisNoCountry>> }

\* city_name: the first truthy of city, town, village, municipality, else
\* result.get('name', '').
CityName(r) ==
    IF Truthy(r.city) THEN r.city
    ELSE IF Truthy(r.town) THEN r.town
    ELSE IF Truthy(r.village) THEN r.village
    ELSE IF Truthy(r.municipality) THEN r.municipality
    ELSE Get(r.name, "")

\* The entry `cities.append` adds for one result (the caller tests
\* `if city_name and country`).
Candidate(r) ==
    LET city_name == CityName(r)
        country == Get(r.country, "Unknown")
        country_code == Upper(Get(r.country_code, <<>>))
        state == Get(r.state, "")
    IN  IF state # "" /\ country = "United States"
        THEN [display |-> <<city_name, ", ", state, ", ", country_code>>,
              value |-> <<city_name, ",", state, ",", country>>,
              city |-> city_name, country |-> country,
              country_code |-> country_code, state |-> state]
        ELSE [display |-> <<city_name, ", ", country>>,
              value |-> <<city_name, ",", country>>,
              city |-> city_name, country |-> country,
              country_code |-> country_code, state |-> state]

Kept(r) == CityName(r) # "" /\ Get(r.country, "Unknown") # ""

RECURSIVE CitiesOf(_)
CitiesOf(results) ==
    IF results = <<>> THEN <<>>
    ELSE LET rest == CitiesOf(Tail(results))
         IN  IF Kept(Head(results)) THEN <<Candidate(Head(results))>> \o rest
             ELSE rest

\* The loop over `cities` with the `seen` set: the first entry of each
\* display name is kept.
RECURSIVE Unique(_, _)
Unique(cities, seen) ==
    IF cities = <<>> THEN <<>>
    ELSE IF Head(cities).display \in seen THEN Unique(Tail(cities), seen)
    ELSE <<Head(cities)>> \o Unique(Tail(cities), seen \cup {Head(cities).display})

\* cache_key = f"{query.lower()}_{limit}"
CacheKey(query, limit) == <<Lower(query), "_", ToString(limit)>>

\* The cache is a set of <<key, value>> pairs, one per key.
InCache(c, key) == \E e \in c : e[1] = key
CacheAt(c, key) == (CHOOSE e \in c : e[1] = key)[2]

CacheStoreNothing(c, key, value) == c

\* self.cache[cache_key] = unique_cities
CacheStore(c, key, value) == {e \in c : e[1] # key} \cup {<<key, value>>}

CacheOnFailureStoresEmpty(c, key) == CacheStore(c, key, <<>>)

\* except Exception: print and return []; the cache is not written.
CacheOnFailure(c, key) == c

\* What the history variable keeps of a call, and of the call before it.
Lookup(query, limit, outcome, returned, requested) ==
    [op |-> "search_cities", query |-> query, limit |-> limit, outcome |-> outcome,
     returned |-> returned, requested |-> requested,
     prior |-> [f \in DOMAIN lookup \ {"prior"} |-> lookup[f]]]
LastTwo(s) == IF Len(s) > 2 THEN Tail(s) ELSE s

GeoOutcomes == {"network_error", "http_error", "bad_json", "bad_shape", "ok"}

TooShortOnlyEmpty(query) == query = <<>>

\* if not query or len(query) < 2
TooShort(query) == query = <<>> \/ Len(query) < 2

SearchCaughtOnlyRequestErrors(exchange) == exchange \in {"network_error", "http_error"}

\* except Exception: the exception of every failure of the exchange and of
\* the loops over its results is caught.
SearchCaught(exchange) ==
    exchange \in {"network_error", "http_error", "bad_json", "bad_shape"}

\* search_cities(query, limit). exchange is how the geocoding exchange ends
\* ("bad_shape": the JSON parses and the loop over it raises), response the
\* result array it carries, latency the ticks between sending the request and
\* its response or failure.
search_cities(query, limit, exchange, response, latency) ==
    LET cache_key == CacheKey(query, limit)
        current_time == wallClock
        time_since_last == current_time - last_request_time
        sendTime == IF time_since_last < min_request_interval
                    THEN current_time + (min_request_interval - time_since_last)
                    ELSE current_time
        doneTime == sendTime + latency
        unique_cities == Unique(CitiesOf(response), {})
    IN
    IF TooShort(query)
    THEN /\ lookup' = Lookup(query, limit, "short", <<>>, FALSE)
         /\ UNCHANGED <<cache, last_request_time, wallClock, sent>>
         /\ UNCHANGED <<scraperVars, storeVars>>
    ELSE IF InCache(cache, cache_key)
    THEN /\ lookup' = Lookup(query, limit, "hit", CacheAt(cache, cache_key), FALSE)
         /\ UNCHANGED <<cache, last_request_time, wallClock, sent>>
         /\ UNCHANGED <<scraperVars, storeVars>>
    ELSE /\ doneTime <= MaxClock
         /\ wallClock' = doneTime
         /\ sent' = LastTwo(Append(sent, sendTime))
         /\ last_request_time' =
                IF exchange \in {"network_error", "http_error"}
                THEN last_request_time
                ELSE doneTime
         /\ IF exchange = "ok"
            THEN /\ cache' = CacheStore(cache, cache_key, unique_cities)
                 /\ lookup' = Lookup(query, limit, "ok", unique_cities, TRUE)
            ELSE /\ cache' = CacheOnFailure(cache, cache_key)
                 /\ lookup' = IF SearchCaught(exchange)
                               THEN Lookup(query, limit, "failed", <<>>, TRUE)
                               ELSE Lookup(query, limit, "raised", <<>>, TRUE)
         /\ UNCHANGED <<scraperVars, storeVars>>

\* Time passes between two calls.
Tick ==
    /\ wallClock < MaxClock
    /\ wallClock' = wallClock + 1
    /\ UNCHANGED <<cache, last_request_time, sent, lookup>>
    /\ UNCHANGED <<scraperVars, storeVars>>

\* CityAutocomplete.__init__
InitResolver ==
    /\ ResolverInit
    /\ AppInit
    /\ wallClock = StartClock
    /\ owm_api_key = NoKey
    /\ call = NoCall
    /\ StoreInit
    /\ now = 0

\* A call that sends no request reads neither exchange, response nor
\* latency, and a failed exchange carries no response.
NextResolver ==
    \/ Tick /\ UNCHANGED appVars
    \/ \E query \in Queries, limit \in Limits :
          /\ UNCHANGED appVars
          /\ IF TooShort(query) \/ InCache(cache, CacheKey(query, limit))
             THEN search_cities(query, limit, "ok", <<>>, 0)
             ELSE \E exchange \in GeoOutcomes, latency \in 0..MaxLatency :
                     \E response \in IF exchange = "ok" THEN Responses ELSE {<<>>} :
                         search_cities(query, limit, exchange, response, latency)

SpecResolver == InitResolver /\ [][NextResolver]_vars

(***************************************************************************)
(* Properties of CityAutocomplete                                          *)
(***************************************************************************)

\* C3: any two consecutive outbound geocoding requests are at least
\* min_request_interval (1 second) apart, whatever the outcome of the
\* earlier one.
C3_Spacing ==
    Len(sent) = 2 => sent[2] - sent[1] >= min_request_interval

\* The last call repeats the query and limit of the call before it.
Repeated ==
    /\ lookup.op = "search_cities"
    /\ lookup.prior.op = "search_cities"
    /\ lookup.prior.query = lookup.query
    /\ lookup.prior.limit = lookup.limit

\* C4 as stated: a call of search_cities that repeats the query and limit of
\* the call before it returns the same sequence and sends no request.
C4_RepeatIsCacheHit ==
    Repeated => (lookup.returned = lookup.prior.returned /\ ~lookup.requested)

\* C4, amended: a call of search_cities that repeats the query and limit of
\* the call before it returns the same sequence and sends no request,
\* provided that earlier call did not fail (it returned from a completed
\* request, from the cache, or for a query of fewer than 2 characters).
C4_RepeatAfterSuccess ==
    (Repeated /\ lookup.prior.outcome # "failed") =>
        (lookup.returned = lookup.prior.returned /\ ~lookup.requested)

C4_Witness ==
    /\ Repeated
    /\ lookup.prior.outcome = "ok"
    /\ lookup.prior.requested
    /\ lookup.outcome = "hit"
    /\ Len(lookup.returned) = 2

\* C16: search_cities never raises: a call ends as a short query, a cache
\* hit, a completed request or a failure, and a call that failed (network
\* error, error status, malformed JSON, results that cannot be processed)
\* returned the empty list after its request.
C16_FailureGivesEmpty ==
    lookup.op = "search_cities" =>
        /\ lookup.outcome \in {"short", "hit", "ok", "failed"}
        /\ lookup.outcome = "failed" => (lookup.returned = <<>> /\ lookup.requested)

\* A failed call after one that returned two cities for the same query.
C16_Witness ==
    /\ Repeated
    /\ lookup.prior.outcome = "failed"
    /\ lookup.outcome = "failed"
    /\ lookup.returned = <<>>
    /\ cache # {}

\* C22: the cache changes only in a step of a call whose request and
\* processing completed, and then by gaining the entry of that call's key
\* with the list it returned, the empty list included; a call that completed
\* has its entry in the cache; a call that failed left the cache as it was,
\* and a call that repeats the query and limit of a failed call before it
\* sends a request.
C22_CacheGainsOnSuccessOnly ==
    /\ [][cache' # cache =>
             /\ lookup'.op = "search_cities"
             /\ lookup'.outcome = "ok"
             /\ lookup'.requested
             /\ ~InCache(cache, CacheKey(lookup'.query, lookup'.limit))
             /\ cache' = cache \cup {<<CacheKey(lookup'.query, lookup'.limit),
                                        lookup'.returned>>}]_vars
    /\ [][(lookup'.op = "search_cities" /\ lookup'.outcome = "failed")
             => cache' = cache]_vars
    /\ [](lookup.op = "search_cities" /\ lookup.outcome = "ok" =>
             <<CacheKey(lookup.query, lookup.limit), lookup.returned>> \in cache)
    /\ [](Repeated /\ lookup.prior.outcome = "failed" =>
             /\ lookup.requested
             /\ lookup.outcome \in {"ok", "failed"})

\* A search failed and the same search, made again, sent a request that
\* found no city: the empty list is now the cache's entry of its key.
C22_Witness ==
    /\ Repeated
    /\ lookup.prior.outcome = "failed"
    /\ lookup.prior.requested
    /\ lookup.outcome = "ok"
    /\ lookup.requested
    /\ lookup.returned = <<>>
    /\ <<CacheKey(lookup.query, lookup.limit), <<>>>> \in cache

\* C17: a call with a query of fewer than 2 characters (the empty query
\* included) returns the empty list and sends no request, and its step
\* leaves the cache, the last-request timestamp and the requests sent as
\* they were.
C17_ShortQueryFrame ==
    /\ [](lookup.op = "search_cities" /\ Len(lookup.query) < 2 =>
             /\ lookup.outcome = "short"
             /\ lookup.returned = <<>>
             /\ ~lookup.requested)
    /\ [][(lookup'.op = "search_cities" /\ Len(lookup'.query) < 2
              /\ wallClock' = wallClock) =>
             /\ cache' = cache
             /\ last_request_time' = last_request_time
             /\ sent' = sent]_vars

\* The empty query, asked when the cache holds an entry.
C17_Witness ==
    /\ lookup.op = "search_cities"
    /\ lookup.query = <<>>
    /\ lookup.outcome = "short"
    /\ cache # {}
    /\ last_request_time > 0

(***************************************************************************)
(* DataStorage                                                             *)
(***************************************************************************)

\* A file holds a JSON value, or is missing, or holds text that is not JSON
\* ("bad_json"), or bytes that are not UTF-8 ("bad_utf8").
Damage == {"missing", "bad_json", "bad_utf8"}
Damaged == {[type |-> d, items |-> <<>>] : d \in Damage}

\* os.path.join(data_dir, ...) with data_dir = "data", as fragments.
history_file == <<"data", "/", "weather_", "history", ".json">>
search_file == <<"data", "/", "search_", "history", ".json">>

\* `'history' in filepath`
HasHistory(filepath) == "history" \in Range(filepath)

\* _read_json(filepath): FileNotFoundError and json.JSONDecodeError are
\* caught; UnicodeDecodeError (a ValueError, not a JSONDecodeError) is not.
ReadJson(filepath, content) ==
    IF content.type = "bad_utf8"
    THEN [raised |-> "UnicodeDecodeError", value |-> EmptyList]
    ELSE IF content.type \in {"missing", "bad_json"}
    THEN [raised |-> "",
          value |-> IF HasHistory(filepath) THEN EmptyDict ELSE EmptyList]
    ELSE [raised |-> "", value |-> content]

\* Iterating a JSON value: the elements of a list, the keys of a dict.
Iterate(v) ==
    IF v.type = "list" THEN v.items
    ELSE [i \in DOMAIN v.items |-> v.items[i][1]]

\* datetime values are ticks since a Monday 00:00:00.
TicksPerDay == 2

\* datetime.weekday(): Monday is 0, Sunday is 6.
DaysPerWeek == 7
Weekday(t) == (t \div TicksPerDay) % DaysPerWeek

\* datetime.isoformat() and datetime.fromisoformat(): a timestamp is the text
\* of a datetime ("iso"), text that does not parse ("bad"), or not there.
Isoformat(t) == [kind |-> "iso", t |-> t]
BadTimestamp == [kind |-> "bad", t |-> 0]
NoTimestamp == [kind |-> "absent", t |-> 0]
Parses(ts) == ts.kind = "iso"

\* What the history variable keeps of an operation: its name and city, the
\* time, the file as found (intact or how damaged), what _read_json gave for
\* a damaged file, the exception that escaped ("" if none), the value returned.
StoreOp(op, city, content, read, returned) ==
    [op |-> op, city |-> city, at |-> now, found |-> 
        IF content \in Damaged THEN content.type ELSE "intact",
     read |-> IF content \in Damaged /\ read.raised = "" THEN read.value
              ELSE [type |-> "", items |-> <<>>],
     raised |-> read.raised,
     returned |-> IF read.raised # "" THEN <<>> ELSE returned]

\* searches = searches[:20]
MaxSearches == 20

\* City names "P1", "p1", "P2", ...: a letter, in either case, and a number.
NumCities == MaxSearches + 1
CityStr(i, capital) == <<IF capital THEN "P" ELSE "p", ToString(i)>>

SameCityExact(a, b) == a = b

\* s['city'].lower() != city.lower(), negated
SameCity(a, b) == Lower(a) = Lower(b)

TruncateNone(searches) == searches

\* searches[:20]
Truncate(searches) ==
    IF Len(searches) > MaxSearches THEN SubSeq(searches, 1, MaxSearches)
    ELSE searches

WithoutCityCutFirst(searches, city) ==
    LET RECURSIVE Without(_)
        Without(ss) ==
            IF ss = <<>> THEN <<>>
            ELSE IF SameCity(Head(ss).city, city) THEN Without(Tail(ss))
            ELSE <<Head(ss)>> \o Without(Tail(ss))
    IN  Without(IF Len(searches) >= MaxSearches
                THEN SubSeq(searches, 1, MaxSearches - 1)
                ELSE searches)

\* [s for s in searches if s['city'].lower() != city.lower()]
RECURSIVE WithoutCity(_, _)
WithoutCity(searches, city) ==
    IF searches = <<>> THEN <<>>
    ELSE IF SameCity(Head(searches).city, city)
    THEN WithoutCity(Tail(searches), city)
    ELSE <<Head(searches)>> \o WithoutCity(Tail(searches), city)

\* add_search(city)
add_search(city) ==
    LET read == ReadJson(search_file, searchFile)
        search_entry == [city |-> city, timestamp |-> Isoformat(now)]
        searches == Truncate(<<search_entry>> \o WithoutCity(Iterate(read.value), city))
    IN  /\ recorded' = Append(recorded, city)
        /\ storeOp' = StoreOp("add_search", city, searchFile, read, <<>>)
        /\ searchFile' = IF read.raised # "" THEN searchFile
                         ELSE [type |-> "list", items |-> searches]
        /\ UNCHANGED <<historyFile, now>>
        /\ UNCHANGED <<scraperVars, resolverVars>>

\* get_search_history()
get_search_history ==
    LET read == ReadJson(search_file, searchFile)
        searches == Iterate(read.value)
    IN  /\ storeOp' = StoreOp("get_search_history", <<>>, searchFile, read,
                               [i \in DOMAIN searches |-> searches[i].city])
        /\ UNCHANGED <<searchFile, historyFile, now, recorded>>
        /\ UNCHANGED <<scraperVars, resolverVars>>

\* The number of add_search calls that named a city recorded before.
MaxRepeats == 1
Names(log) == {Lower(log[k]) : k \in DOMAIN log}
Repeats(log) == Len(log) - Cardinality(Names(log))

\* The cities the next add_search is called with: a city not recorded yet
\* (cities are first recorded in the order P1, P2, ..., capitalised), or,
\* MaxRepeats times, a city recorded before, in lower case.
NextCities ==
    LET names == Names(recorded)
        fresh == IF Cardinality(names) < NumCities
                 THEN {CityStr(Cardinality(names) + 1, TRUE)}
                 ELSE {}
        again == IF Repeats(recorded) < MaxRepeats
                 THEN names
                 ELSE {}
    IN  fresh \cup again

InitSearch ==
    /\ StoreInit
    /\ now = 0
    /\ owm_api_key = NoKey
    /\ call = NoCall
    /\ ResolverInit
    /\ AppInit
    /\ wallClock = 0

NextSearch ==
    \/ \E city \in NextCities : add_search(city) /\ UNCHANGED appVars
    \/ get_search_history /\ UNCHANGED appVars

SpecSearch == InitSearch /\ [][NextSearch]_vars

(***************************************************************************)
(* DataStorage: the weather history                                        *)
(***************************************************************************)

StartOfWeekSunday(t) ==
    LET start_of_week == t - ((Weekday(t) + 1) % DaysPerWeek) * TicksPerDay
    IN  start_of_week - (start_of_week % TicksPerDay)

\* start_of_week: now - timedelta(days=now.weekday()), then
\* replace(hour=0, minute=0, second=0, microsecond=0).
StartOfWeek(t) ==
    LET start_of_week == t - Weekday(t) * TicksPerDay
    IN  start_of_week - (start_of_week % TicksPerDay)

FilterKeepAll(data_list, t) == data_list

\* _filter_current_week(data_list): KeyError (no timestamp) and ValueError
\* (text that does not parse) skip the entry.
RECURSIVE FilterCurrentWeek(_, _)
FilterCurrentWeek(data_list, t) ==
    IF data_list = <<>> THEN <<>>
    ELSE LET entry == Head(data_list)
             rest == FilterCurrentWeek(Tail(data_list), t)
         IN  IF Parses(entry.timestamp) /\ entry.timestamp.t >= StartOfWeek(t)
             THEN <<entry>> \o rest
             ELSE rest

\* A dict is a sequence of <<key, value>> pairs.
HasKey(items, key) == \E i \in DOMAIN items : items[i][1] = key
ValueAt(items, key) == items[CHOOSE i \in DOMAIN items : items[i][1] = key][2]
WithValue(items, key, value) ==
    IF HasKey(items, key)
    THEN [i \in DOMAIN items |-> IF items[i][1] = key THEN <<key, value>> ELSE items[i]]
    ELSE Append(items, <<key, value>>)

HistoryCities == {<<"P", "a">>, <<"p", "a">>, <<"r", "u">>}
Snapshots == {[timestamp |-> NoTimestamp], [timestamp |-> BadTimestamp],
              [timestamp |-> Isoformat(0)]}
MaxEntries == 2

\* save_weather_data(city, weather_data)
save_weather_data(city, weather_data) ==
    LET read == ReadJson(history_file, historyFile)
        history == read.value.items
        city_key == Lower(city)
        old == IF HasKey(history, city_key) THEN ValueAt(history, city_key) ELSE <<>>
        stamped == IF weather_data.timestamp = NoTimestamp
                   THEN [weather_data EXCEPT !.timestamp = Isoformat(now)]
                   ELSE weather_data
        kept == FilterCurrentWeek(Append(old, stamped), now)
    IN  /\ Len(old) < MaxEntries
        /\ storeOp' = StoreOp("save_weather_data", city, historyFile, read, <<>>)
        /\ historyFile' = IF read.raised # "" THEN historyFile
                          ELSE [type |-> "dict",
                                items |-> WithValue(history, city_key, kept)]
        /\ UNCHANGED <<searchFile, now, recorded>>
        /\ UNCHANGED <<scraperVars, resolverVars>>

\* get_weather_history(city)
get_weather_history(city) ==
    LET read == ReadJson(history_file, historyFile)
        history == read.value.items
        city_key == Lower(city)
    IN  /\ storeOp' = StoreOp("get_weather_history", city, historyFile, read,
                               IF HasKey(history, city_key)
                               THEN FilterCurrentWeek(ValueAt(history, city_key), now)
                               ELSE <<>>)
        /\ UNCHANGED <<searchFile, historyFile, now, recorded>>
        /\ UNCHANGED <<scraperVars, resolverVars>>

\* clear_old_data()
clear_old_data ==
    LET read == ReadJson(history_file, historyFile)
        history == read.value.items
    IN  /\ storeOp' = StoreOp("clear_old_data", <<>>, historyFile, read, <<>>)
        /\ historyFile' =
               IF read.raised # "" THEN historyFile
               ELSE [type |-> "dict",
                     items |-> [i \in DOMAIN history |->
                                  <<history[i][1], FilterCurrentWeek(history[i][2], now)>>]]
        /\ UNCHANGED <<searchFile, now, recorded>>
        /\ UNCHANGED <<scraperVars, resolverVars>>

\* The clock is followed from a Wednesday 12:00 and from the Sunday 00:00 that
\* ends the same week, for MaxTicks ticks each.
MaxTicks == 2
StartNows == {2 * TicksPerDay + 1, (DaysPerWeek - 1) * TicksPerDay}

\* Time passes between two operations.
TickNow ==
    /\ \E start \in StartNows : start <= now /\ now < start + MaxTicks
    /\ now' = now + 1
    /\ UNCHANGED <<searchFile, historyFile, recorded, storeOp>>
    /\ UNCHANGED <<scraperVars, resolverVars>>

InitHistory ==
    /\ searchFile = EmptyList
    /\ historyFile = EmptyDict
    /\ recorded = <<>>
    /\ storeOp = [op |-> "none"]
    /\ now \in StartNows
    /\ owm_api_key = NoKey
    /\ call = NoCall
    /\ ResolverInit
    /\ AppInit
    /\ wallClock = 0

NextHistory ==
    \/ TickNow /\ UNCHANGED appVars
    \/ \E city \in HistoryCities, weather_data \in Snapshots :
          save_weather_data(city, weather_data) /\ UNCHANGED appVars
    \/ \E city \in HistoryCities : get_weather_history(city) /\ UNCHANGED appVars
    \/ clear_old_data /\ UNCHANGED appVars

SpecHistory == InitHistory /\ [][NextHistory]_vars

\* A history file written by hand or by another version: entries out of
\* time order, without a timestamp, with one that does not parse; the valid
\* ones are the second Monday's 00:00:00 and the tick before it.
ForeignHistory ==
    [type |-> "dict",
     items |-> << <<(<<"p", "a">>),
                    <<[timestamp |-> BadTimestamp],
                      [timestamp |-> Isoformat(DaysPerWeek * TicksPerDay)],
                      [timestamp |-> NoTimestamp],
                      [timestamp |-> Isoformat(DaysPerWeek * TicksPerDay - 1)]>> >> >>]

\* The operations on any content of the history file.
InitAnyHistory ==
    /\ searchFile = EmptyList
    /\ historyFile \in {EmptyDict, ForeignHistory}
    /\ recorded = <<>>
    /\ storeOp = [op |-> "none"]
    /\ now \in StartNows
    /\ owm_api_key = NoKey
    /\ call = NoCall
    /\ ResolverInit
    /\ AppInit
    /\ wallClock = 0

SpecAnyHistory == InitAnyHistory /\ [][NextHistory]_vars

(***************************************************************************)
(* Properties of the search history                                        *)
(***************************************************************************)

\* C5: after any sequence of add_search calls starting from an empty search
\* file, get_search_history returns at most 20 entries.
C5_AtMostTwenty ==
    storeOp.op = "get_search_history" =>
        (storeOp.raised = "" /\ Len(storeOp.returned) <= 20)

\* More than 20 different cities were recorded and 20 are returned.
C5_Witness ==
    /\ storeOp.op = "get_search_history"
    /\ Cardinality(Names(recorded)) > 20
    /\ Len(storeOp.returned) = 20

\* The cities of log[1..k] from the newest recording to the oldest, each city
\* once, case ignored, in the spelling of its newest recording.
RECURSIVE NewestFirst(_, _, _)
NewestFirst(log, k, seen) ==
    IF k = 0 THEN <<>>
    ELSE IF Lower(log[k]) \in seen THEN NewestFirst(log, k - 1, seen)
    ELSE <<log[k]>> \o NewestFirst(log, k - 1, seen \cup {Lower(log[k])})

\* C6: after any sequence of add_search calls starting from an empty search
\* file, no two persisted entries have city names equal ignoring case, the
\* most recently recorded city, as last spelled, is the first entry, and the
\* entries are the most recently recorded cities in newest-first order.
C6_UniqueNewestFirst ==
    LET items == searchFile.items
        cities == [i \in DOMAIN items |-> items[i].city]
        expected == NewestFirst(recorded, Len(recorded), {})
    IN  /\ searchFile.type = "list"
        /\ Cardinality({Lower(items[i].city) : i \in DOMAIN items}) = Len(items)
        /\ recorded # <<>> =>
               (items # <<>> /\ items[1].city = recorded[Len(recorded)])
        /\ Len(cities) <= Len(expected)
        /\ cities = SubSeq(expected, 1, Len(cities))

\* "P1" then "p1" leaves one entry, spelled "p1".
C6_Witness ==
    /\ recorded = <<CityStr(1, TRUE), CityStr(1, FALSE)>>
    /\ Len(searchFile.items) = 1
    /\ searchFile.items[1].city = CityStr(1, FALSE)

\* The cities of a list, case ignored.
CitySet(items) == {Lower(items[i].city) : i \in DOMAIN items}

\* C21: add_search removes the entry of the city, case ignored, before it
\* cuts the list to 20. When the list holds 20 cities, recording a city it
\* holds evicts none: the cities are the same 20, the recorded one first and
\* the others in their order; recording a city it does not hold evicts
\* exactly the last entry, the others following the new one in their order.
C21_DedupeBeforeTruncate ==
    [][(storeOp'.op = "add_search" /\ recorded' # recorded
          /\ Len(searchFile.items) = 20) =>
         LET old == searchFile.items
             new == searchFile'.items
             city == recorded'[Len(recorded')]
         IN  /\ Len(new) = 20
             /\ new[1].city = city
             /\ IF Lower(city) \in CitySet(old)
                THEN /\ CitySet(new) = CitySet(old)
                     /\ Tail(new) = SelectSeq(old, LAMBDA s : Lower(s.city) # Lower(city))
                ELSE /\ CitySet(new) = (CitySet(old) \ {Lower(old[20].city)})
                                          \cup {Lower(city)}
                     /\ Tail(new) = SubSeq(old, 1, 19)]_vars

\* Twenty cities were recorded and then the oldest of them again, in lower
\* case: the list holds the same twenty cities, the oldest now first.
C21_Witness ==
    /\ storeOp.op = "add_search"
    /\ Len(recorded) = 21
    /\ Cardinality(Names(recorded)) = 20
    /\ recorded[21] = CityStr(1, FALSE)
    /\ Len(searchFile.items) = 20
    /\ searchFile.items[1].city = CityStr(1, FALSE)
    /\ CitySet(searchFile.items) = Names(recorded)

(***************************************************************************)
(* Properties of the weather history                                       *)
(***************************************************************************)

\* The most recent Monday 00:00:00 at time t.
MondayOf(t) ==
    CHOOSE m \in 0..t : m % (7 * TicksPerDay) = 0 /\ t - m < 7 * TicksPerDay

\* An entry of an earlier week than that of time t.
Older(entry, t) == Parses(entry.timestamp) /\ entry.timestamp.t < MondayOf(t)
NoneOlder(data_list, t) == \A i \in DOMAIN data_list : ~Older(data_list[i], t)

\* The persisted entries of a city key (none if it is not tracked).
Persisted(key) ==
    IF HasKey(historyFile.items, key) THEN ValueAt(historyFile.items, key) ELSE <<>>
Tracked == {historyFile.items[i][1] : i \in DOMAIN historyFile.items}

JustDone(ops) == storeOp.op \in ops /\ storeOp.at = now /\ storeOp.raised = ""

\* C7 as stated: after every save_weather_data, get_weather_history and
\* clear_old_data, no tracked city has a persisted entry older than Monday
\* 00:00:00 of the current week.
C7_PurgedAfterEveryOperation ==
    JustDone({"save_weather_data", "get_weather_history", "clear_old_data"}) =>
        \A key \in Tracked : NoneOlder(Persisted(key), now)

\* C7, amended: after save_weather_data(city) the persisted list of that city,
\* and after clear_old_data the persisted list of every tracked city, has no
\* entry older than Monday 00:00:00 of the current week; get_weather_history
\* leaves the persisted file as it is.
C7_PurgedOnWrite ==
    /\ [](/\ JustDone({"save_weather_data"}) =>
               NoneOlder(Persisted(Lower(storeOp.city)), now)
          /\ JustDone({"clear_old_data"}) =>
               \A key \in Tracked : NoneOlder(Persisted(key), now))
    /\ [][storeOp'.op = "get_weather_history" => historyFile' = historyFile]_vars

\* A save on the second Monday left only the new entry for its city, while
\* another city keeps an entry of the week before.
C7_Witness ==
    /\ JustDone({"save_weather_data"})
    /\ now = 7 * TicksPerDay
    /\ Persisted(Lower(storeOp.city)) = <<[timestamp |-> Isoformat(now)]>>
    /\ \E key \in Tracked : ~NoneOlder(Persisted(key), now)

RECURSIVE IsSubsequence(_, _)
IsSubsequence(a, b) ==
    IF a = <<>> THEN TRUE
    ELSE IF b = <<>> THEN FALSE
    ELSE IF Head(a) = Head(b) THEN IsSubsequence(Tail(a), Tail(b))
    ELSE IsSubsequence(a, Tail(b))

\* C8: whatever the history file holds, get_weather_history(city) returns no
\* entry older than the most recent Monday 00:00:00 and none whose timestamp
\* is missing or does not parse, and returns entries in their stored order.
C8_CurrentWeekOnly ==
    (storeOp.op = "get_weather_history" /\ storeOp.raised = "") =>
        /\ \A i \in DOMAIN storeOp.returned :
               /\ Parses(storeOp.returned[i].timestamp)
               /\ ~Older(storeOp.returned[i], storeOp.at)
        /\ IsSubsequence(storeOp.returned, Persisted(Lower(storeOp.city)))

\* On the second Monday, of four stored entries only the one of that Monday
\* 00:00:00 is returned.
C8_Witness ==
    /\ storeOp.op = "get_weather_history"
    /\ storeOp.at = 7 * TicksPerDay
    /\ Len(Persisted(Lower(storeOp.city))) = 4
    /\ storeOp.returned = <<[timestamp |-> Isoformat(7 * TicksPerDay)]>>

(***************************************************************************)
(* DataStorage on missing and corrupt files                                *)
(***************************************************************************)

\* The files as DataStorage may find them after __init__, which creates only
\* the files that do not exist, or once they have been deleted.
InitDamaged ==
    /\ searchFile \in Damaged \cup {EmptyList}
    /\ historyFile \in Damaged \cup {EmptyDict}
    /\ recorded = <<>>
    /\ storeOp = [op |-> "none"]
    /\ now = (DaysPerWeek - 1) * TicksPerDay
    /\ owm_api_key = NoKey
    /\ call = NoCall
    /\ ResolverInit
    /\ AppInit
    /\ wallClock = 0

NextDamaged ==
    \/ \E city \in {CityStr(1, TRUE), CityStr(1, FALSE), CityStr(2, TRUE)} :
          Len(recorded) <= MaxRepeats /\ add_search(city) /\ UNCHANGED appVars
    \/ get_search_history /\ UNCHANGED appVars
    \/ \E city \in HistoryCities, weather_data \in Snapshots :
          save_weather_data(city, weather_data) /\ UNCHANGED appVars
    \/ \E city \in HistoryCities : get_weather_history(city) /\ UNCHANGED appVars
    \/ clear_old_data /\ UNCHANGED appVars

SpecDamaged == InitDamaged /\ [][NextDamaged]_vars

\* C9: every read of a missing or corrupt file gives the empty value of the
\* file's type, an empty mapping for the weather history file and an empty
\* sequence for the search history file, and no operation of the store
\* raises because of what a file holds.
C9_DegradesToEmpty ==
    storeOp.op # "none" =>
        /\ storeOp.raised = ""
        /\ storeOp.found \in Damage =>
               storeOp.read = IF storeOp.op \in {"add_search", "get_search_history"}
                              THEN EmptyList
                              ELSE EmptyDict

(***************************************************************************)
(* WeatherScraper: wind direction on the fallback path                     *)
(***************************************************************************)

\* Bearings are whole degrees.
MaxDeg == 360
Bearings == 0..MaxDeg

directions == <<"N", "NNE", "NE", "ENE", "E", "ESE", "SE", "SSE",
                "S", "SSW", "SW", "WSW", "W", "WNW", "NW", "NNW">>

degrees_to_direction_rounded(degrees) ==
    directions[(RoundNearest(100 * degrees + 1125, 2250) % 16) + 1]

\* index = int((degrees + 11.25) / 22.5) % 16, in hundredths of a degree;
\* sequences are 1-based.
degrees_to_direction(degrees) ==
    directions[(IntTrunc(100 * degrees + 1125, 2250) % 16) + 1]

\* dict.get(key, default) on a JSON object.
DictGet(d, key, default) == IF key \in DOMAIN d THEN d[key] ELSE default

\* data['wind'] of the fallback's document: 'deg' may be missing.
WindObjects == {[speed |-> 0]} \cup {[speed |-> 0, deg |-> d] : d \in Bearings}

\* The wind_direction entry of _get_weather_from_owm:
\* self._degrees_to_direction(data['wind'].get('deg', 0)).
owm_wind_direction(wind) ==
    /\ call' = [op |-> "_degrees_to_direction", wind |-> wind,
                wind_direction |-> degrees_to_direction(DictGet(wind, "deg", 0))]
    /\ UNCHANGED <<owm_api_key, resolverVars, storeVars>>

NextCompass ==
    \E wind \in WindObjects : owm_wind_direction(wind) /\ UNCHANGED appVars

SpecCompass == Init /\ [][NextCompass]_vars

\* The position of a direction in the table, counted from 0.
IndexOf(d) == (CHOOSE i \in DOMAIN directions : directions[i] = d) - 1

\* C11 as stated: the direction reported for deg is the table's entry at
\* index round((deg + 11.25) / 22.5) mod 16.
C11_RoundedIndex ==
    (call.op = "_degrees_to_direction" /\ "deg" \in DOMAIN call.wind) =>
        IndexOf(call.wind_direction) =
            RoundNearest(100 * call.wind.deg + 1125, 2250) % 16

\* C11, amended: the direction reported for deg is the table's entry at index
\* floor((deg + 11.25) / 22.5) mod 16, the compass point nearest to deg: the
\* point at index k is reported exactly for 22.5 k - 11.25 <= deg <
\* 22.5 k + 11.25, and N also from 348.75 on.
C11_NearestPoint ==
    (call.op = "_degrees_to_direction" /\ "deg" \in DOMAIN call.wind) =>
        LET k == IndexOf(call.wind_direction)
            d == 100 * (call.wind.deg % 360)
        IN  \/ 2250 * k - 1125 <= d /\ d < 2250 * k + 1125
            \/ k = 0 /\ d >= 36000 - 1125

\* 11 degrees is reported as N, where the rounded index gives NNE.
C11_Witness ==
    /\ call.op = "_degrees_to_direction"
    /\ "deg" \in DOMAIN call.wind
    /\ call.wind.deg = 11
    /\ call.wind_direction = "N"

(***************************************************************************)
(* WeatherScraper: get_historical_weather                                  *)
(***************************************************************************)

\* range(1, min(days + 1, 8)): at most 7 days back.
MaxDaysBack == 7
MaxDays == 8
DaysValues == 0..MaxDays
DayOffsets(days) == 1..(IF days + 1 < MaxDaysBack + 1 THEN days ELSE MaxDaysBack)

\* How the geocoding exchange ends: requests.get raises, raise_for_status
\* raises, response.json raises, the document lacks 'coord', the document
\* has 'coord' but lacks 'name' or 'sys' (read only when a day is built), or
\* the document is complete.
HistGeocodeOutcomes ==
    {"network_error", "http_error", "bad_json", "no_coord", "no_name", "ok"}

\* How a per-day exchange ends: requests.get raises, the status is not 200,
\* response.json raises, the document lacks a key of daily_weather, or the
\* document is complete.
DayOutcomes == {"network_error", "not_200", "bad_json", "missing_keys", "ok"}

DayStepSkipsBadJson(location, o) ==
    CASE o = "network_error" -> "raise"
      [] o = "not_200"       -> "skip"
      [] o = "bad_json"      -> "skip"
      [] o = "missing_keys"  -> "raise"
      [] o = "ok"            -> IF location = "no_name" THEN "raise" ELSE "append"

\* One iteration of the loop: only a response with status_code == 200 is
\* read, any exception leaves the loop.
DayStep(location, o) ==
    CASE o = "network_error" -> "raise"
      [] o = "not_200"       -> "skip"
      [] o = "bad_json"      -> "raise"
      [] o = "missing_keys"  -> "raise"
      [] o = "ok"            -> IF location = "no_name" THEN "raise" ELSE "append"

\* daily_weather of day_offset: the reading stamped noon, day_offset days ago.
DailyWeather(city, day_offset) == [city |-> city, days_ago |-> day_offset]

\* The loop from day_offset i to n: the list built, the requests sent and
\* whether an exception left the loop.
RECURSIVE HistoricalLoop(_, _, _, _, _, _)
HistoricalLoop(city, location, daily, i, n, historical_data) ==
    IF i > n THEN [data |-> historical_data, requests |-> i - 1, raised |-> FALSE]
    ELSE LET step == DayStep(location, daily[i])
         IN  IF step = "raise"
             THEN [data |-> historical_data, requests |-> i, raised |-> TRUE]
             ELSE HistoricalLoop(city, location, daily, i + 1, n,
                     IF step = "append"
                     THEN Append(historical_data, DailyWeather(city, i))
                     ELSE historical_data)

HistoricalDisabledOnlyNone(key) == key = NoKey

\* if not self.owm_api_key: return []
HistoricalDisabled(key) == ~KeyConfigured(key)

HistCall(city, days, geocode, daily, requests, result) ==
    [op |-> "get_historical_weather", city |-> city, days |-> days,
     geocode |-> geocode, daily |-> daily, requests |-> requests,
     result |-> result, error |-> NoError]

\* get_historical_weather(city, days): geocode is the outcome of the
\* geocoding exchange, daily[i] that of the exchange of day_offset i. The
\* call keeps the outcomes of the exchanges that took place.
get_historical_weather(city, days, geocode, daily) ==
    /\ call' =
         IF HistoricalDisabled(owm_api_key)
         THEN HistCall(city, days, "untried", <<>>, 0, <<>>)
         ELSE IF geocode \notin {"no_name", "ok"}
         THEN HistCall(city, days, geocode, <<>>, 1, <<>>)
         ELSE LET n == Cardinality(DayOffsets(days))
                  loop == HistoricalLoop(city, geocode, daily, 1, n, <<>>)
              IN  HistCall(city, days, geocode,
                           SubSeq(daily, 1, loop.requests), 1 + loop.requests,
                           IF loop.raised THEN <<>> ELSE loop.data)
    /\ UNCHANGED <<owm_api_key, resolverVars, storeVars>>

\* The exchanges of the days: all complete but for at most two days.
DailyOutcomes(a, oa, b, ob) ==
    [i \in 1..MaxDaysBack |-> IF i = a THEN oa ELSE IF i = b THEN ob ELSE "ok"]

\* The call reads no state but the key and leaves none behind: one call for
\* each key and each input covers every call.
NextHistorical ==
    /\ call = NoCall
    /\ \E city \in Cities, days \in DaysValues, geocode \in HistGeocodeOutcomes,
          a \in 1..MaxDaysBack, b \in 1..MaxDaysBack, oa \in DayOutcomes, ob \in DayOutcomes :
           /\ get_historical_weather(city, days, geocode, DailyOutcomes(a, oa, b, ob))
           /\ UNCHANGED appVars

SpecHistorical == Init /\ [][NextHistorical]_vars

(***************************************************************************)
(* Properties of get_historical_weather                                    *)
(***************************************************************************)

HistoricalCall == call.op = "get_historical_weather"
DayFailures == {"network_error", "not_200", "bad_json", "missing_keys"}
SomeDay(outcomes) == \E i \in DOMAIN call.daily : call.daily[i] \in outcomes

\* The days of the call whose exchange was complete, most recent first.
RECURSIVE CompleteDays(_, _, _)
CompleteDays(city, daily, i) ==
    IF i > Len(daily) THEN <<>>
    ELSE IF daily[i] = "ok"
         THEN <<DailyWeather(city, i)>> \o CompleteDays(city, daily, i + 1)
         ELSE CompleteDays(city, daily, i + 1)

\* C12 as stated: with a key configured, after any failure of the geocoding
\* request or of a per-day request (network error, non-200 status, malformed
\* or incomplete document) the result is empty, and nothing is raised.
C12_AnyFailureGivesEmpty ==
    (HistoricalCall /\ call.geocode # "untried") =>
        /\ call.error = NoError
        /\ (call.geocode # "ok" \/ SomeDay(DayFailures)) => call.result = <<>>

\* C12, amended: with a key configured the operation never raises; the result
\* is empty after a failure of the geocoding request and after a per-day
\* network error or malformed or incomplete document (of the day or, once a
\* day is built, of the geocoding document); a per-day response whose status
\* is not 200 only leaves that day out, the other days are still returned.
C12_FailureGivesEmptyBut200 ==
    (HistoricalCall /\ call.geocode # "untried") =>
        /\ call.error = NoError
        /\ IF \/ call.geocode \notin {"ok", "no_name"}
              \/ SomeDay({"network_error", "bad_json", "missing_keys"})
              \/ call.geocode = "no_name" /\ SomeDay({"ok"})
           THEN call.result = <<>>
           ELSE /\ call.result = CompleteDays(call.city, call.daily, 1)
                /\ Len(call.daily) = Cardinality(DayOffsets(call.days))

\* Seven days asked, the third answered 503: six days are returned.
C12_Witness ==
    /\ HistoricalCall
    /\ call.days = 7
    /\ call.geocode = "ok"
    /\ call.daily = <<"ok", "ok", "not_200", "ok", "ok", "ok", "ok">>
    /\ Len(call.result) = 6

\* C13: with no key configured (None or the empty string),
\* get_historical_weather returns an empty list, sends no request and raises
\* nothing, whatever the city and days.
C13_NoKeyNoRequest ==
    (HistoricalCall /\ owm_api_key \in {NoKey, ""}) =>
        /\ call.result = <<>>
        /\ call.requests = 0
        /\ call.error = NoError

\* A call for seven days with the key set to the empty string.
C13_Witness ==
    /\ HistoricalCall
    /\ owm_api_key = ""
    /\ call.days = 7
    /\ call.requests = 0

(***************************************************************************)
(* WeatherScraper: get_tomorrow_forecast                                   *)
(***************************************************************************)

\* The exception classes the operation meets.
\* requests.get and raise_for_status raise subclasses of RequestException.
\* response.json raises requests.exceptions.JSONDecodeError, a subclass of
\* both RequestException and json.JSONDecodeError, with requests 2.27 and
\* later, and json.JSONDecodeError with earlier releases.
IsRequestException(kind) ==
    kind \in {"ConnectionError", "HTTPError", "requests.JSONDecodeError"}
\* except (KeyError, IndexError, json.JSONDecodeError)
IsParseException(kind) ==
    kind \in {"KeyError", "IndexError", "json.JSONDecodeError",
              "requests.JSONDecodeError"}

JsonErrorKinds == {"requests.JSONDecodeError", "json.JSONDecodeError"}

\* How the exchange with the primary ends.
ForecastExchanges ==
    {[outcome |-> "network_error", kind |-> "ConnectionError"],
     [outcome |-> "http_error", kind |-> "HTTPError"],
     [outcome |-> "ok", kind |-> "none"]}
      \cup {[outcome |-> "bad_json", kind |-> k] : k \in JsonErrorKinds}

\* The shapes of a daily block, and the exception that reading the block
\* into forecast_data raises: a missing key, an 'hourly' list shorter than
\* five, an 'hourly' that is null, a string or an object, an empty
\* 'astronomy' list, an hourly entry without 'time'.
BlockShapes ==
    {"complete", "no_date", "hourly_short", "hourly_null", "hourly_string",
     "hourly_object", "astronomy_empty", "hour_no_time"}
BlockError(shape) ==
    CASE shape = "complete"        -> "none"
      [] shape = "no_date"         -> "KeyError"
      [] shape = "hourly_short"    -> "IndexError"
      [] shape = "hourly_null"     -> "TypeError"
      [] shape = "hourly_string"   -> "TypeError"
      [] shape = "hourly_object"   -> "KeyError"
      [] shape = "astronomy_empty" -> "IndexError"
      [] shape = "hour_no_time"    -> "KeyError"

Dates == {"2026-01-01", "2026-01-02"}
Block(date, shape) == [date |-> date, shape |-> shape]

\* The documents the primary may answer with: a JSON array, an object
\* without 'weather', an object whose 'weather' is null, an object whose
\* 'weather' is a list of up to three daily blocks (today, tomorrow, the day
\* after). Today's block and the day after's are not read: they are complete.
WeatherLists ==
    {<<>>}
      \cup {<<Block(d, "complete")>> : d \in Dates}
      \cup {<<Block(d0, "complete"), Block(d1, s)>> \o rest :
               d0 \in Dates, d1 \in Dates, s \in BlockShapes,
               rest \in {<<>>} \cup {<<Block(d, "complete")>> : d \in Dates}}
Documents ==
    {[type |-> "list", weather |-> [type |-> "absent", items |-> <<>>]],
     [type |-> "dict", weather |-> [type |-> "absent", items |-> <<>>]],
     [type |-> "dict", weather |-> [type |-> "null", items |-> <<>>]]}
      \cup {[type |-> "dict", weather |-> [type |-> "list", items |-> w]] :
               w \in WeatherLists}
NoDocument == [type |-> "none", weather |-> [type |-> "absent", items |-> <<>>]]

HasTomorrowAnyBlock(weather) == Len(weather) > 0

\* if len(data['weather']) > 1
HasTomorrow(weather) == Len(weather) > 1

\* What the try block does with the parsed document: the exception it
\* raises ("none" if it returns, "Exception" for its own raise).
ForecastBody(data) ==
    IF data.type # "dict" THEN "TypeError"
    ELSE IF data.weather.type = "absent" THEN "KeyError"
    ELSE IF data.weather.type = "null" THEN "TypeError"
    ELSE IF HasTomorrow(data.weather.items)
         THEN IF Len(data.weather.items) < 2 THEN "IndexError"
              ELSE BlockError(data.weather.items[2].shape)
         ELSE "Exception"

\* forecast_data, built from tomorrow = data['weather'][1].
ForecastData(data) == [source |-> "wttr.in", date |-> data.weather.items[2].date]

ForecastCall(city, exchange, data, kind, result, raised, error) ==
    [op |-> "get_tomorrow_forecast", city |-> city, exchange |-> exchange,
     data |-> data, kind |-> kind, result |-> result, raised |-> raised,
     error |-> error]

\* get_tomorrow_forecast(city): exchange is how the exchange ends, data the
\* document it carries when it ends well. kind is the exception raised inside
\* the try block, raised the exception that leaves the operation.
get_tomorrow_forecast(city, exchange, data) ==
    /\ call' =
         LET doc  == IF exchange.outcome = "ok" THEN data ELSE NoDocument
             kind == IF exchange.outcome = "ok" THEN ForecastBody(data)
                     ELSE exchange.kind
         IN  IF kind = "none"
             THEN ForecastCall(city, exchange.outcome, doc, kind,
                               ForecastData(data), "none", NoError)
             ELSE IF IsRequestException(kind)
             THEN ForecastCall(city, exchange.outcome, doc, kind, NoResult,
                               "Exception", <<"Failed to fetch forecast data", ": ", kind>>)
             ELSE IF IsParseException(kind)
             THEN ForecastCall(city, exchange.outcome, doc, kind, NoResult,
                               "Exception", <<"Failed to parse forecast data", ": ", kind>>)
             ELSE IF kind = "Exception"
             THEN ForecastCall(city, exchange.outcome, doc, kind, NoResult,
                               "Exception", <<"Tomorrow's forecast not available">>)
             ELSE ForecastCall(city, exchange.outcome, doc, kind, NoResult,
                               kind, <<kind>>)
    /\ UNCHANGED <<owm_api_key, resolverVars, storeVars>>

NextForecast ==
    \E city \in Cities, exchange \in ForecastExchanges, data \in Documents :
        get_tomorrow_forecast(city, exchange, data) /\ UNCHANGED appVars

SpecForecast == Init /\ [][NextForecast]_vars

(***************************************************************************)
(* Properties of get_tomorrow_forecast                                     *)
(***************************************************************************)

ForecastAnswered ==
    /\ call.op = "get_tomorrow_forecast"
    /\ call.exchange = "ok"
DailyBlocks == call.data.weather.items
ForecastUnavailable ==
    /\ call.raised = "Exception"
    /\ call.error = <<"Tomorrow's forecast not available">>
ForecastError(message) ==
    /\ call.raised = "Exception"
    /\ Len(call.error) = 3
    /\ call.error[1] = message

\* C14: when the primary's document holds a list of fewer than 2 daily
\* blocks the operation fails with "Tomorrow's forecast not available" and
\* nothing else; when it holds at least 2 it does not fail with that error,
\* and a forecast it returns is that of the block at index 1.
C14_UnavailableBelowTwoBlocks ==
    (ForecastAnswered /\ call.data.type = "dict" /\ call.data.weather.type = "list") =>
        IF Len(DailyBlocks) < 2
        THEN ForecastUnavailable /\ call.result = NoResult
        ELSE /\ ~ForecastUnavailable
             /\ call.raised = "none" =>
                  /\ call.result.date = DailyBlocks[2].date
                  /\ DailyBlocks[2].shape = "complete"

\* A document of one daily block.
C14_Witness ==
    /\ ForecastAnswered
    /\ call.data.weather.type = "list"
    /\ Len(DailyBlocks) = 1
    /\ ForecastUnavailable

\* The documents whose structure keeps the forecast from being built.
StructuralFailure ==
    /\ ForecastAnswered
    /\ \/ call.data.type # "dict"
       \/ call.data.weather.type # "list"
       \/ Len(DailyBlocks) >= 2 /\ DailyBlocks[2].shape # "complete"

\* C15: every transport failure surfaces as "Failed to fetch forecast
\* data", every structural failure of the document and malformed JSON as
\* "Failed to parse forecast data", and nothing else escapes but
\* "Tomorrow's forecast not available".
C15_TransportAndParseErrors ==
    call.op = "get_tomorrow_forecast" =>
        /\ call.exchange \in {"network_error", "http_error"} =>
               ForecastError("Failed to fetch forecast data")
        /\ (call.exchange = "bad_json" \/ StructuralFailure) =>
               ForecastError("Failed to parse forecast data")
        /\ call.raised \in {"none", "Exception"}

(***************************************************************************)
(* WeatherScraper: get_weather_emoji                                       *)
(***************************************************************************)

\* `sub in str` for strings.
Contains(sub, str) ==
    \E i \in 0..(Len(str) - Len(sub)) : SubSeq(str, i + 1, i + Len(sub)) = sub

\* The keywords the branches look for.
kw ==
    [sunny |-> <<"s", "u", "n", "n", "y">>,
     clear |-> <<"c", "l", "e", "a", "r">>,
     partly_cloudy |-> <<"p", "a", "r", "t", "l", "y", " ", "c", "l", "o", "u", "d", "y">>,
     cloudy |-> <<"c", "l", "o", "u", "d", "y">>,
     overcast |-> <<"o", "v", "e", "r", "c", "a", "s", "t">>,
     rain |-> <<"r", "a", "i", "n">>,
     drizzle |-> <<"d", "r", "i", "z", "z", "l", "e">>,
     heavy |-> <<"h", "e", "a", "v", "y">>,
     thunder |-> <<"t", "h", "u", "n", "d", "e", "r">>,
     storm |-> <<"s", "t", "o", "r", "m">>,
     snow |-> <<"s", "n", "o", "w">>,
     fog |-> <<"f", "o", "g">>,
     mist |-> <<"m", "i", "s", "t">>,
     wind |-> <<"w", "i", "n", "d">>]

\* The glyphs returned, named by their code point.
Glyph ==
    [sun |-> "U+2600 sun",
     partial_cloud |-> "U+26C5 sun behind cloud",
     cloud |-> "U+2601 cloud",
     heavy_rain |-> "U+1F327 cloud with rain",
     light_rain |-> "U+1F326 sun behind rain cloud",
     storm |-> "U+26C8 thunder cloud and rain",
     snow |-> "U+2744 snowflake",
     fog |-> "U+1F32B fog",
     wind |-> "U+1F4A8 dash",
     default |-> "U+1F324 sun behind small cloud"]

EmojiCloudyFirst(condition_lower) ==
    IF Contains(kw.sunny, condition_lower) \/ Contains(kw.clear, condition_lower)
    THEN Glyph.sun
    ELSE IF Contains(kw.cloudy, condition_lower) \/ Contains(kw.overcast, condition_lower)
    THEN Glyph.cloud
    ELSE IF Contains(kw.partly_cloudy, condition_lower)
    THEN Glyph.partial_cloud
    ELSE IF Contains(kw.rain, condition_lower) \/ Contains(kw.drizzle, condition_lower)
    THEN IF Contains(kw.heavy, condition_lower) THEN Glyph.heavy_rain ELSE Glyph.light_rain
    ELSE IF Contains(kw.thunder, condition_lower) \/ Contains(kw.storm, condition_lower)
    THEN Glyph.storm
    ELSE IF Contains(kw.snow, condition_lower) THEN Glyph.snow
    ELSE IF Contains(kw.fog, condition_lower) \/ Contains(kw.mist, condition_lower)
    THEN Glyph.fog
    ELSE IF Contains(kw.wind, condition_lower) THEN Glyph.wind
    ELSE Glyph.default

\* The if/elif chain over condition_lower.
Emoji(condition_lower) ==
    IF Contains(kw.sunny, condition_lower) \/ Contains(kw.clear, condition_lower)
    THEN Glyph.sun
    ELSE IF Contains(kw.partly_cloudy, condition_lower)
    THEN Glyph.partial_cloud
    ELSE IF Contains(kw.cloudy, condition_lower) \/ Contains(kw.overcast, condition_lower)
    THEN Glyph.cloud
    ELSE IF Contains(kw.rain, condition_lower) \/ Contains(kw.drizzle, condition_lower)
    THEN IF Contains(kw.heavy, condition_lower) THEN Glyph.heavy_rain ELSE Glyph.light_rain
    ELSE IF Contains(kw.thunder, condition_lower) \/ Contains(kw.storm, condition_lower)
    THEN Glyph.storm
    ELSE IF Contains(kw.snow, condition_lower) THEN Glyph.snow
    ELSE IF Contains(kw.fog, condition_lower) \/ Contains(kw.mist, condition_lower)
    THEN Glyph.fog
    ELSE IF Contains(kw.wind, condition_lower) THEN Glyph.wind
    ELSE Glyph.default

\* The condition texts of the two providers (the fallback's are title-cased),
\* and texts that meet several branches or none.
PartlyCloudyText == <<"P", "a", "r", "t", "l", "y", " ", "c", "l", "o", "u", "d", "y">>
Conditions ==
    { <<>>,
      <<"S", "u", "n", "n", "y">>,
      <<"C", "l", "e", "a", "r">>,
      <<"C", "l", "e", "a", "r", " ", "S", "k", "y">>,
      <<"P", "a", "r", "t", "l", "y", " ", "C", "l", "o", "u", "d", "y">>,
      <<"P", "A", "R", "T", "L", "Y", " ", "C", "L", "O", "U", "D", "Y">>,
      <<"P", "a", "r", "t", "l", "y", " ", " ", "c", "l", "o", "u", "d", "y">>,
      <<"C", "l", "o", "u", "d", "y">>,
      <<"O", "v", "e", "r", "c", "a", "s", "t">>,
      <<"S", "c", "a", "t", "t", "e", "r", "e", "d", " ", "C", "l", "o", "u", "d", "s">>,
      <<"C", "l", "o", "u", "d", "y", " ", "w", "i", "t", "h", " ", "s", "u", "n", "n", "y", " ", "s", "p", "e", "l", "l", "s">>,
      <<"M", "i", "s", "t">>,
      <<"F", "r", "e", "e", "z", "i", "n", "g", " ", "f", "o", "g">>,
      <<"P", "a", "t", "c", "h", "y", " ", "r", "a", "i", "n", " ", "p", "o", "s", "s", "i", "b", "l", "e">>,
      <<"L", "i", "g", "h", "t", " ", "R", "a", "i", "n">>,
      <<"H", "e", "a", "v", "y", " ", "r", "a", "i", "n">>,
      <<"H", "e", "a", "v", "y", " ", "I", "n", "t", "e", "n", "s", "i", "t", "y", " ", "R", "a", "i", "n">>,
      <<"L", "i", "g", "h", "t", " ", "d", "r", "i", "z", "z", "l", "e">>,
      <<"H", "e", "a", "v", "y", " ", "r", "a", "i", "n", " ", "w", "i", "t", "h", " ", "t", "h", "u", "n", "d", "e", "r">>,
      <<"S", "u", "n", "n", "y", " ", "i", "n", "t", "e", "r", "v", "a", "l", "s", " ", "w", "i", "t", "h", " ", "r", "a", "i", "n">>,
      <<"T", "h", "u", "n", "d", "e", "r", "y", " ", "o", "u", "t", "b", "r", "e", "a", "k", "s", " ", "p", "o", "s", "s", "i", "b", "l", "e">>,
      <<"T", "h", "u", "n", "d", "e", "r", "s", "t", "o", "r", "m">>,
      <<"S", "t", "o", "r", "m">>,
      <<"S", "n", "o", "w", " ", "s", "t", "o", "r", "m">>,
      <<"H", "e", "a", "v", "y", " ", "s", "n", "o", "w">>,
      <<"B", "l", "o", "w", "i", "n", "g", " ", "s", "n", "o", "w">>,
      <<"W", "i", "n", "d", "y">>,
      <<"H", "a", "z", "e">>,
      <<"H", "e", "a", "v", "y", " ", "f", "o", "g">>,
      PartlyCloudyText }

\* weather_data.get('weather_code'): None on the primary path.
WeatherCodes == {"<None>", "113", "116", "800"}

\* get_weather_emoji(condition, weather_code)
get_weather_emoji(condition, weather_code) ==
    /\ call' = [op |-> "get_weather_emoji", condition |-> condition,
                weather_code |-> weather_code,
                emoji |-> LET condition_lower == Lower(condition)
                          IN  Emoji(condition_lower)]
    /\ UNCHANGED <<owm_api_key, resolverVars, storeVars>>

NextEmoji ==
    \E condition \in Conditions, weather_code \in WeatherCodes :
        get_weather_emoji(condition, weather_code) /\ UNCHANGED appVars

SpecEmoji == Init /\ [][NextEmoji]_vars

(***************************************************************************)
(* Properties of get_weather_emoji                                         *)
(***************************************************************************)

EmojiCall == call.op = "get_weather_emoji"

\* The lower-cased text of the call holds one of the keywords.
Says(keywords) == \E k \in keywords : Contains(k, Lower(call.condition))

\* The branches in their order: the keywords and the glyphs of each.
Branches ==
    << [keywords |-> {kw.sunny, kw.clear},     glyphs |-> {Glyph.sun}],
       [keywords |-> {kw.partly_cloudy},       glyphs |-> {Glyph.partial_cloud}],
       [keywords |-> {kw.cloudy, kw.overcast}, glyphs |-> {Glyph.cloud}],
       [keywords |-> {kw.rain, kw.drizzle},    glyphs |-> {Glyph.heavy_rain, Glyph.light_rain}],
       [keywords |-> {kw.thunder, kw.storm},   glyphs |-> {Glyph.storm}],
       [keywords |-> {kw.snow},                glyphs |-> {Glyph.snow}],
       [keywords |-> {kw.fog, kw.mist},        glyphs |-> {Glyph.fog}],
       [keywords |-> {kw.wind},                glyphs |-> {Glyph.wind}] >>

\* C18: the glyph is that of the first branch, in the order clear/sunny,
\* partly cloudy, cloudy/overcast, rain/drizzle, thunder/storm, snow,
\* fog/mist, wind, whose keyword occurs in the lower-cased text, the heavy
\* rain glyph exactly when "heavy" occurs too, and the default glyph when no
\* branch matches; "Partly cloudy" gives the partial-cloud glyph; and two
\* calls with the same text give the same glyph whatever their codes.
C18_FirstMatchingBranch ==
    /\ [](EmojiCall =>
            /\ \A b \in DOMAIN Branches :
                  (Says(Branches[b].keywords)
                     /\ \A a \in 1..(b - 1) : ~Says(Branches[a].keywords))
                  => call.emoji \in Branches[b].glyphs
            /\ (\A b \in DOMAIN Branches : ~Says(Branches[b].keywords))
                  => call.emoji = Glyph.default
            /\ call.emoji = Glyph.heavy_rain => Says({kw.heavy})
            /\ call.emoji = Glyph.light_rain => ~Says({kw.heavy})
            /\ call.condition = PartlyCloudyText => call.emoji = Glyph.partial_cloud)
    /\ [][(EmojiCall /\ call'.op = "get_weather_emoji"
             /\ call'.condition = call.condition) => call'.emoji = call.emoji]_vars

\* "Partly cloudy", asked with a weather code.
C18_Witness ==
    /\ EmojiCall
    /\ call.condition = PartlyCloudyText
    /\ call.weather_code = "116"
    /\ call.emoji = Glyph.partial_cloud

(***************************************************************************)
(* DataStorage: two processes inside add_search                            *)
(***************************************************************************)

\* add_search is a read of the search file (_read_json), a computation on
\* the list read and a write of the result (_write_json), with no lock: the
\* steps of two processes interleave at the read and at the write.
WriterCities ==
    {CityStr(1, TRUE), CityStr(1, FALSE), CityStr(2, TRUE), CityStr(2, FALSE)}

\* The search file when the processes start: empty, or left by one earlier
\* add_search of another city.
EarlierSearch == [city |-> CityStr(3, TRUE), timestamp |-> Isoformat(0)]
StartFiles == {EmptyList, [type |-> "list", items |-> <<EarlierSearch>>]}

SearchesToWriteFresh(read_searches, file_searches, search_entry) ==
    Truncate(<<search_entry>> \o WithoutCity(file_searches, search_entry.city))

\* The list written: the entry put before the list that was read (less its
\* earlier entry of the city), cut to 20; what the file holds by now is not
\* looked at.
SearchesToWrite(read_searches, file_searches, search_entry) ==
    Truncate(<<search_entry>> \o WithoutCity(read_searches, search_entry.city))

\* add_search(city) up to and including searches = self._read_json(...)
add_search_read(w, city) ==
    /\ writers[w].pc = "start"
    /\ writers' = [writers EXCEPT ![w] =
                     [pc |-> "read", city |-> city,
                      searches |-> Iterate(ReadJson(search_file, searchFile).value),
                      readAt |-> Len(recorded)]]
    /\ UNCHANGED <<scraperVars, resolverVars, storeVars, page>>

\* add_search(city) from the filter to self._write_json(...)
add_search_write(w) ==
    /\ writers[w].pc = "read"
    /\ LET city == writers[w].city
           search_entry == [city |-> city, timestamp |-> Isoformat(now)]
           searches == SearchesToWrite(writers[w].searches, Iterate(searchFile),
                                       search_entry)
       IN  /\ searchFile' = [type |-> "list", items |-> searches]
           /\ recorded' = Append(recorded, city)
           /\ storeOp' = StoreOp("add_search", city, searchFile,
                                 [raised |-> "", value |-> searchFile], <<>>)
    /\ writers' = [writers EXCEPT ![w].pc = "done"]
    /\ UNCHANGED <<historyFile, now>>
    /\ UNCHANGED <<scraperVars, resolverVars, page>>

InitWriters ==
    /\ searchFile \in StartFiles
    /\ historyFile = EmptyDict
    /\ recorded = <<>>
    /\ storeOp = [op |-> "none"]
    /\ now = 0
    /\ owm_api_key = NoKey
    /\ call = NoCall
    /\ ResolverInit
    /\ AppInit
    /\ wallClock = 0

NextWriters ==
    \/ \E w \in Writers, city \in WriterCities : add_search_read(w, city)
    \/ \E w \in Writers : add_search_write(w)

SpecWriters == InitWriters /\ [][NextWriters]_vars

(***************************************************************************)
(* Properties of concurrent add_search                                     *)
(***************************************************************************)

\* The persisted list holds an entry of the city (in any spelling).
Persists(city) ==
    \E i \in DOMAIN searchFile.items : SameCity(searchFile.items[i].city, city)

\* Both processes have written, for different cities: first wrote first.
BothWrote(first, last) ==
    /\ first # last
    /\ writers[first].pc = "done"
    /\ writers[last].pc = "done"
    /\ recorded = <<writers[first].city, writers[last].city>>
    /\ ~SameCity(writers[first].city, writers[last].city)

\* C20: add_search is not atomic. When two processes have recorded
\* different cities, the list holds the city of the one that wrote last, and
\* holds the city of the one that wrote first exactly if the last one read
\* the file after that write: a read before it loses the first update (which
\* the witness reaches).
C20_LostIffStaleRead ==
    \A first \in Writers, last \in Writers :
        BothWrote(first, last) =>
            /\ Persists(writers[last].city)
            /\ Persists(writers[first].city) <=> writers[last].readAt >= 1

\* Both processes read the file before either wrote: the city recorded
\* first is absent from the final list.
C20_Witness ==
    \E first \in Writers, last \in Writers :
        /\ BothWrote(first, last)
        /\ writers[first].readAt = 0
        /\ writers[last].readAt = 0
        /\ ~Persists(writers[first].city)
        /\ Persists(writers[last].city)

(***************************************************************************)
(* app.main: one run of the script for the selected city                   *)
(***************************************************************************)

\* st.session_state['current_city']
MainCities == {CityStr(1, TRUE), CityStr(1, FALSE)}

Render(p, section, pc) == [p EXCEPT !.rendered = Append(@, section), !.pc = pc]

\* The outer `except Exception`: st.error, and the run is over.
RunFailed(p) == Render(p, "error", "done")

ForecastFailureFatal(p) == [RunFailed(p) EXCEPT !.forecast = "failed"]

\* The inner `except Exception` around the forecast: st.warning, and the run
\* goes on to the historical section.
ForecastFailure(p) ==
    [Render(p, "forecast_warning", "history") EXCEPT !.forecast = "failed"]

\* weather_data = scraper.get_current_weather(city)
main_current_weather(city, primary, fallback, wind) ==
    /\ page.pc = "idle"
    /\ get_current_weather(city, primary, fallback, wind)
    /\ page' = IF call'.error = NoError
               THEN [page EXCEPT !.city = city, !.pc = "add_search"]
               ELSE RunFailed([page EXCEPT !.city = city])
    /\ UNCHANGED writers

\* storage.add_search(city)
main_add_search ==
    /\ page.pc = "add_search"
    /\ add_search(page.city)
    /\ page' = IF storeOp'.raised = ""
               THEN [page EXCEPT !.pc = "display"]
               ELSE RunFailed(page)
    /\ UNCHANGED writers

\* display_current_weather(weather_data, scraper) and st.success
main_display_current ==
    /\ page.pc = "display"
    /\ page' = Render(page, "current", "forecast")
    /\ UNCHANGED <<scraperVars, resolverVars, storeVars, writers>>

\* forecast_data = scraper.get_tomorrow_forecast(city);
\* display_tomorrow_forecast(forecast_data), inside try / except Exception
main_forecast(exchange, data) ==
    /\ page.pc = "forecast"
    /\ get_tomorrow_forecast(page.city, exchange, data)
    /\ page' = IF call'.raised = "none"
               THEN [Render(page, "forecast", "history") EXCEPT !.forecast = "ok"]
               ELSE ForecastFailure(page)
    /\ UNCHANGED writers

\* display_historical_data(scraper, city): the heading, then the note on the
\* missing key, or get_historical_weather(city, days=7) and its chart or its
\* note on missing data; its own try / except Exception ends in st.error
\* below the heading.
main_history(geocode, daily) ==
    /\ page.pc = "history"
    /\ page' = Render(page, "history", "done")
    /\ IF ~KeyConfigured(owm_api_key)
       THEN UNCHANGED <<scraperVars, resolverVars, storeVars>>
       ELSE get_historical_weather(page.city, 7, geocode, daily)
    /\ UNCHANGED writers

\* The documents and exchanges of a run: a complete forecast, one daily
\* block only, a null 'hourly', a JSON array; every kind of exchange; at most
\* one day of the history failing.
MainDocuments ==
    {d \in Documents :
        \/ d.type = "list"
        \/ /\ d.weather.type = "list"
           /\ Len(d.weather.items) \in {1, 2}
           /\ \A i \in DOMAIN d.weather.items :
                 /\ d.weather.items[i].date = "2026-01-01"
                 /\ d.weather.items[i].shape \in {"complete", "hourly_null"}}

InitMain ==
    /\ owm_api_key \in KeyValues
    /\ call = NoCall
    /\ ResolverInit
    /\ AppInit
    /\ wallClock = 0
    /\ searchFile \in Damaged \cup {EmptyList}
    /\ historyFile = EmptyDict
    /\ recorded = <<>>
    /\ storeOp = [op |-> "none"]
    /\ now = 0

NextMain ==
    \/ \E city \in MainCities, primary \in Outcomes, fallback \in Outcomes :
          main_current_weather(city, primary, fallback, 0)
    \/ main_add_search
    \/ main_display_current
    \/ \E exchange \in ForecastExchanges, data \in MainDocuments :
          main_forecast(exchange, data)
    \/ \E geocode \in HistGeocodeOutcomes, a \in 1..MaxDaysBack, oa \in DayOutcomes :
          main_history(geocode, DailyOutcomes(a, oa, a, oa))

\* The script runs to its end: no step of a run is put off for ever (every
\* step of a run moves page.pc).
SpecMain == InitMain /\ [][NextMain]_vars /\ WF_page(NextMain)

(***************************************************************************)
(* Properties of app.main                                                  *)
(***************************************************************************)

Rendered(section) == \E i \in DOMAIN page.rendered : page.rendered[i] = section

\* C19: when get_tomorrow_forecast fails in a run (whose current-weather
\* lookup therefore succeeded), the current-weather display is already
\* rendered, a warning stands in for the forecast, and the run goes on: the
\* historical section is rendered after them and the run ends without the
\* error of a failed run.
C19_ForecastFailureNotFatal ==
    /\ [](page.forecast = "failed" =>
            /\ Len(page.rendered) >= 2
            /\ page.rendered[1] = "current"
            /\ page.rendered[2] = "forecast_warning"
            /\ ~Rendered("error")
            /\ page.pc = "done" =>
                 page.rendered = <<"current", "forecast_warning", "history">>)
    /\ (page.forecast = "failed") ~> (page.pc = "done" /\ Rendered("history"))

\* The forecast failed and the run ended with the historical section, its
\* data asked of the fallback provider.
C19_Witness ==
    /\ page.forecast = "failed"
    /\ page.pc = "done"
    /\ page.rendered = <<"current", "forecast_warning", "history">>
    /\ KeyConfigured(owm_api_key)
    /\ call.op = "get_historical_weather"

====
